---- MODULE Spec2Model ----
(***************************************************************************)
(* A model of the business dashboard of src/main.py (a Streamlit script).  *)
(*                                                                         *)
(* The script is executed from top to bottom once per user interaction (a  *)
(* "render pass").  Session State (st.session_state) is a dictionary kept  *)
(* per browser session; the table cache of @st.cache_data(ttl=20) is kept  *)
(* by the server process and is the same object for every session.         *)
(*                                                                         *)
(* Two specifications are given:                                           *)
(*   Spec     the application: sessions, login, logout, refresh, section   *)
(*            selection, the cache and the clock;                          *)
(*   SpecAgg  the body of dashboard() after the tables are loaded (date    *)
(*            parsing, rename, the selected section's aggregations),       *)
(*            applied to tables drawn from bounded sets.                   *)
(* Both use the same operators for the code of dashboard().                *)
(*                                                                         *)
(* The model covers runs in which both secrets are configured (the guard   *)
(* of lines 46-48 is false) and Revenue.json can be read.                  *)
(***************************************************************************)
EXTENDS Integers, Sequences, FiniteSets, TLC

VARIABLES
    session_state,  \* session -> st.session_state, a dictionary (function on its keys)
    section,        \* session -> the option_menu selection kept by the widget
    rerun,          \* session -> TRUE when st.rerun() was called and the pass is pending
    view,           \* session -> what the last render pass of the session did and showed
    signed_in,      \* session -> history: a sign-in returned a user since start / last logout
    cache,          \* table name -> entry of the st.cache_data store of fetch_table
    fetched_by,     \* table name -> history: the session whose pass filled the entry
    aggIn,          \* SpecAgg: the inputs of the dashboard body
    aggOut          \* SpecAgg: its result

vars == <<session_state, section, rerun, view, signed_in, cache, fetched_by, aggIn, aggOut>>

appVars == <<session_state, section, rerun, view, signed_in, cache, fetched_by>>
aggVars == <<aggIn, aggOut>>

(***************************************************************************)
(* Bounds of the model.                                                    *)
(***************************************************************************)
MaxRows == 2        \* rows per table drawn in SpecAgg
MaxAmount == 2      \* sale amounts are 0..MaxAmount
MaxStock == 1       \* product stock is 0..MaxStock
MaxPrice == 1       \* product price is 1..MaxPrice+1
TickStep == 10      \* seconds the clock advances per Tick

(***************************************************************************)
(* Program constants.                                                      *)
(***************************************************************************)
TTL == 20                   \* @st.cache_data(ttl=20)
DefaultThreshold == 5       \* st.number_input(..., value=5)
DefaultIndex == 1           \* option_menu(default_index=0), 1-based here

Sessions == {"A", "B"}
TableNames == <<"products", "sales", "customers">>
TableNameSet == {TableNames[i] : i \in 1..Len(TableNames)}
Options == <<"Sales", "Customers", "Products", "Status">>
Sections == {Options[i] : i \in 1..Len(Options)}

Null == "NULL"              \* an absent field of a row (None / NaN)
NoException == "none"

Min(a, b) == IF a < b THEN a ELSE b

(***************************************************************************)
(* Dictionaries (st.session_state).                                        *)
(***************************************************************************)
EmptyDict == [k \in {} |-> TRUE]
Has(d, k) == k \in DOMAIN d
Put(d, k, v) == [x \in (DOMAIN d) \cup {k} |-> IF x = k THEN v ELSE d[x]]
Del(d, k) == [x \in (DOMAIN d) \ {k} |-> d[x]]

(***************************************************************************)
(* Data frames: the set of column names and the sequence of rows.  A row   *)
(* is a record over the columns; an absent value is Null.                  *)
(***************************************************************************)
EmptyDF == [cols |-> {}, rows |-> <<>>]

\* pd.DataFrame(res.data): no rows gives a frame without columns.
DataFrame(data) ==
    IF Len(data) = 0 THEN EmptyDF
    ELSE [cols |-> UNION {DOMAIN data[i] : i \in 1..Len(data)}, rows |-> data]

\* df.empty: some axis has length 0.
IsEmpty(df) == Len(df.rows) = 0 \/ df.cols = {}

(***************************************************************************)
(* Timestamps.  A date text is parsed by pd.to_datetime(errors="coerce"):  *)
(* a text that is no date becomes NaT.                                     *)
(***************************************************************************)
NaT == [nat |-> TRUE, y |-> 0, m |-> 0, d |-> 0, h |-> 0]
Timestamp(y, m, d, h) == [nat |-> FALSE, y |-> y, m |-> m, d |-> d, h |-> h]

to_datetime(txt) ==
    CASE txt = "2024-01-01"       -> Timestamp(2024, 1, 1, 0)
      [] txt = "2024-01-02"       -> Timestamp(2024, 1, 2, 0)
      [] txt = "2024-01-02 09:00" -> Timestamp(2024, 1, 2, 9)
      [] txt = "2024-02-15"       -> Timestamp(2024, 2, 15, 0)
      [] txt = "2024-03-01 18:00" -> Timestamp(2024, 3, 1, 18)
      [] OTHER                    -> NaT

Ordinal(t) == ((t.y * 100 + t.m) * 100 + t.d) * 100 + t.h

\* Series.max() of a datetime column: NaT values are skipped; NaT when none is left.
MaxTimestamp(ts) ==
    LET real == {ts[i] : i \in {j \in 1..Len(ts) : ~ts[j].nat}}
    IN  IF real = {} THEN NaT
        ELSE CHOOSE t \in real : \A u \in real : Ordinal(u) <= Ordinal(t)

\* Series.dt.date
DateOnly(t) == IF t.nat THEN NaT ELSE Timestamp(t.y, t.m, t.d, 0)
\* Series.dt.to_period("M").dt.to_timestamp()
MonthStart(t) == IF t.nat THEN NaT ELSE Timestamp(t.y, t.m, 1, 0)

Column(df, col) == [i \in 1..Len(df.rows) |-> df.rows[i][col]]

\* parse_dates(df, col)
parse_dates(df, col) ==
    IF col \in df.cols
    THEN [df EXCEPT !.rows =
            [i \in 1..Len(df.rows) |-> [df.rows[i] EXCEPT ![col] = to_datetime(@)]]]
    ELSE df

\* customers_df.rename(columns={"joined_on": "joined_at"})
RenameColumn(df, old, new) ==
    LET ren(r) == [k \in ((DOMAIN r) \ {old}) \cup {new} |->
                        IF k = new THEN r[old] ELSE r[k]]
    IN  [cols |-> (df.cols \ {old}) \cup {new},
         rows |-> [i \in 1..Len(df.rows) |-> ren(df.rows[i])]]

(***************************************************************************)
(* Text.  A customer's name and email and a search query are sequences of  *)
(* characters, so that lower() and contains() are computed.                *)
(***************************************************************************)
LowerChar(c) ==
    CASE c = "A" -> "a"
      [] c = "B" -> "b"
      [] c = "X" -> "x"
      [] OTHER   -> c

\* str.lower()
Lower(s) == [i \in 1..Len(s) |-> LowerChar(s[i])]

\* str.contains(q) for a query without regular-expression metacharacters
Contains(s, q) ==
    \E i \in 1..(Len(s) - Len(q) + 1) : SubSeq(s, i, i + Len(q) - 1) = q

(***************************************************************************)
(* Helpers of the aggregations.                                            *)
(***************************************************************************)
RECURSIVE SumSeq(_)
SumSeq(s) == IF Len(s) = 0 THEN 0 ELSE Head(s) + SumSeq(Tail(s))

RECURSIVE SetToSeq(_)
SetToSeq(S) ==
    IF S = {} THEN <<>>
    ELSE LET x == CHOOSE y \in S : TRUE IN <<x>> \o SetToSeq(S \ {x})

\* The order Python gives to the product names of the model.
ProductOrder == <<"Ink", "Pen">>

\* groupby(key)[val].sum().reset_index() with string keys: one row per key,
\* keys sorted, rows whose key is absent dropped (groupby's dropna=True).
GroupSumByProduct(rows) ==
    LET present == {rows[i].product : i \in 1..Len(rows)} \ {Null}
        keys == SelectSeq(ProductOrder, LAMBDA k : k \in present)
        total(k) == SumSeq([i \in 1..Len(SelectSeq(rows, LAMBDA r : r.product = k)) |->
                              SelectSeq(rows, LAMBDA r : r.product = k)[i].amount])
    IN  [i \in 1..Len(keys) |-> [product |-> keys[i], amount |-> total(keys[i])]]

\* groupby on a timestamp key: NaT keys dropped, keys ascending.
TimestampKeys(keyset) ==
    SortSeq(SetToSeq(keyset \ {NaT}), LAMBDA a, b : Ordinal(a) < Ordinal(b))

\* df.groupby("date_only")["amount"].sum().reset_index()
GroupSumByDay(rows) ==
    LET keys == TimestampKeys({DateOnly(rows[i].date) : i \in 1..Len(rows)})
        total(k) == SumSeq([i \in 1..Len(SelectSeq(rows, LAMBDA r : DateOnly(r.date) = k)) |->
                              SelectSeq(rows, LAMBDA r : DateOnly(r.date) = k)[i].amount])
    IN  [i \in 1..Len(keys) |-> [date_only |-> keys[i], amount |-> total(keys[i])]]

\* tmp.groupby("joined_month").size().reset_index(name="count")
GroupCountByMonth(rows) ==
    LET keys == TimestampKeys({MonthStart(rows[i].joined_at) : i \in 1..Len(rows)})
    IN  [i \in 1..Len(keys) |->
            [joined_month |-> keys[i],
             count |-> Len(SelectSeq(rows, LAMBDA r : MonthStart(r.joined_at) = keys[i]))]]

\* sales_df.sort_values("date", ascending=False): NaT last
SortByDateDescending(rows) ==
    SortSeq(rows, LAMBDA a, b : Ordinal(a.date) > Ordinal(b.date))

(***************************************************************************)
(* What a section shows.  tiles names the metric tiles that were drawn;    *)
(* raised is the exception that ended the pass (NoException when the pass  *)
(* ran to its end) and line the source line that raised it.                *)
(***************************************************************************)
Dash == [dash |-> TRUE, ts |-> NaT]             \* the text "—"
Shown(t) == [dash |-> FALSE, ts |-> t]          \* str(t) / t.strftime(...)

BlankResult ==
    [raised |-> NoException, line |-> 0, tiles |-> {},
     total_revenue |-> 0, total_orders |-> 0, last_sale |-> Dash,
     rev |-> <<>>, daily |-> <<>>, recent |-> <<>>,
     total_customers |-> 0, newest_display |-> Dash,
     filtered |-> <<>>, monthly |-> <<>>,
     low |-> <<>>, total_value |-> 0, services |-> <<>>]

Raise(res, exc, ln) == [res EXCEPT !.raised = exc, !.line = ln]

\* lines 211-255
RenderSales(sales_df) ==
    LET rows == sales_df.rows
        nonempty == ~IsEmpty(sales_df)
        has(c) == c \in sales_df.cols
        r0 == BlankResult
        \* 216-224
        r1 == [r0 EXCEPT
                 !.total_revenue = IF nonempty THEN SumSeq(Column(sales_df, "amount")) ELSE 0,
                 !.total_orders = Len(rows),
                 !.last_sale = IF nonempty THEN Shown(MaxTimestamp(Column(sales_df, "date")))
                               ELSE Dash,
                 !.tiles = {"Total Revenue", "Total Orders", "Last Sale"}]
        \* 229-238
        r2 == IF nonempty THEN [r1 EXCEPT !.rev = GroupSumByProduct(rows)] ELSE r1
        \* 243-252
        r3 == IF has("date") THEN [r2 EXCEPT !.daily = GroupSumByDay(rows)] ELSE r2
        \* 254-255
        r4 == [r3 EXCEPT !.recent = SortByDateDescending(rows)]
    IN  IF nonempty /\ ~has("amount") THEN Raise(r0, "KeyError", 217)
        ELSE IF nonempty /\ ~has("date") THEN Raise(r0, "KeyError", 220)
        ELSE IF nonempty /\ ~has("product") THEN Raise(r1, "KeyError", 230)
        ELSE IF ~has("date") THEN Raise(r3, "KeyError", 255)
        ELSE r4

\* customers_df[name.lower().contains(q_lower) | email.lower().contains(q_lower)]
search_customers(rows, q) ==
    SelectSeq(rows, LAMBDA r : \/ Contains(Lower(r.name), Lower(q))
                               \/ Contains(Lower(r.email), Lower(q)))

\* lines 260-302
RenderCustomers(customers_df, q) ==
    LET rows == customers_df.rows
        nonempty == ~IsEmpty(customers_df)
        has(c) == c \in customers_df.cols
        r0 == [BlankResult EXCEPT !.total_customers = Len(rows)]
        newest == MaxTimestamp(Column(customers_df, "joined_at"))
        \* 267-274
        r1 == [r0 EXCEPT
                 !.newest_display = IF nonempty THEN Shown(DateOnly(newest)) ELSE Dash,
                 !.tiles = {"Total Customers", "Newest Customer"}]
        \* 278-288
        r2 == [r1 EXCEPT !.filtered = IF Len(q) > 0 THEN search_customers(rows, q) ELSE rows]
        \* 293-302
        r3 == IF nonempty THEN [r2 EXCEPT !.monthly = GroupCountByMonth(rows)] ELSE r2
    IN  IF nonempty /\ ~has("joined_at") THEN Raise(r0, "KeyError", 268)
        ELSE IF nonempty /\ newest.nat THEN Raise(r0, "ValueError", 269)
        ELSE IF Len(q) > 0 /\ ~has("name") THEN Raise(r1, "KeyError", 284)
        ELSE IF Len(q) > 0 /\ ~has("email") THEN Raise(r1, "KeyError", 285)
        ELSE r3

\* products_df[products_df["stock"] <= thresh]
low_stock(rows, thresh) == SelectSeq(rows, LAMBDA r : r.stock <= thresh)

\* lines 307-332
RenderProducts(products_df, thresh) ==
    LET rows == products_df.rows
        has(c) == c \in products_df.cols
        r1 == [BlankResult EXCEPT !.low = low_stock(rows, thresh)]
        r2 == [r1 EXCEPT
                 !.total_value = SumSeq([i \in 1..Len(rows) |-> rows[i].price * rows[i].stock]),
                 !.tiles = {"Total Inventory Value"}]
    IN  IF IsEmpty(products_df) THEN BlankResult
        ELSE IF ~has("stock") THEN Raise(BlankResult, "KeyError", 317)
        ELSE IF ~has("price") THEN Raise(r1, "KeyError", 328)
        ELSE r2

\* lines 334-352: the six hardcoded health flags
RenderStatus ==
    [BlankResult EXCEPT !.services =
        << [name |-> "Database", status |-> TRUE],
           [name |-> "Auth", status |-> TRUE],
           [name |-> "Storage", status |-> TRUE],
           [name |-> "PostgREST", status |-> TRUE],
           [name |-> "Realtime", status |-> FALSE],
           [name |-> "Edge Functions", status |-> TRUE] >>]

\* dashboard(), lines 201-352: date parsing, rename, then the selected section
DashboardBody(sec, products_df, sales_df, customers_df, q, thresh) ==
    LET sales == parse_dates(sales_df, "date")
        parsed == parse_dates(customers_df, "joined_on")
        customers == IF "joined_on" \in parsed.cols
                     THEN RenameColumn(parsed, "joined_on", "joined_at")
                     ELSE parsed
    IN  CASE sec = "Sales"     -> RenderSales(sales)
          [] sec = "Customers" -> RenderCustomers(customers, q)
          [] sec = "Products"  -> RenderProducts(products_df, thresh)
          [] OTHER             -> RenderStatus

(***************************************************************************)
(* Messages put on the display surface (st.error, st.success).             *)
(***************************************************************************)
Message(kind, text, arg) == [kind |-> kind, text |-> text, arg |-> arg]
FillAllFields == Message("error", "Please fill all fields.", "")
InvalidLogin == Message("error", "Invalid email or password", "")
LoginSuccessful == Message("success", "Login successful!", "")
FetchError(table_name) == Message("error", "Error fetching", table_name)

(***************************************************************************)
(* Lines 16-40: the top of the script, run by every pass.                  *)
(***************************************************************************)
ScriptTop(ss) ==
    LET s1 == IF Has(ss, "refresh") THEN Del(ss, "refresh") ELSE ss
        s2 == IF ~Has(s1, "show_intro") THEN Put(s1, "show_intro", TRUE) ELSE s1
        s3 == IF s2["show_intro"] THEN Put(s2, "show_intro", FALSE) ELSE s2
    IN  [ss |-> s3, splash |-> s2["show_intro"]]

(***************************************************************************)
(* Auth functions.  provider is what sign_in_with_password does: it        *)
(* returns a user, returns no user, or raises.                             *)
(***************************************************************************)
NoSignIn == [called |-> FALSE, ok |-> FALSE, user |-> Null, text |-> ""]

\* A sign-in that records the email before it looks at the provider's answer.
supabase_sign_in_keeps_email(ss, email, password, provider) ==
    IF provider.kind = "raise"
    THEN [ss |-> ss, called |-> TRUE, ok |-> FALSE, user |-> Null, text |-> provider.text]
    ELSE IF provider.user # Null
    THEN [ss |-> Put(Put(ss, "user", provider.user), "email", email),
          called |-> TRUE, ok |-> TRUE, user |-> provider.user, text |-> ""]
    ELSE [ss |-> Put(ss, "email", email),
          called |-> TRUE, ok |-> FALSE, user |-> Null, text |-> "Login failed."]

\* lines 56-65
supabase_sign_in(ss, email, password, provider) ==
    IF provider.kind = "raise"
    THEN [ss |-> ss, called |-> TRUE, ok |-> FALSE, user |-> Null, text |-> provider.text]
    ELSE IF provider.user # Null
    THEN [ss |-> Put(Put(ss, "user", provider.user), "email", email),
          called |-> TRUE, ok |-> TRUE, user |-> provider.user, text |-> ""]
    ELSE [ss |-> ss, called |-> TRUE, ok |-> FALSE, user |-> Null, text |-> "Login failed."]

\* A logout that removes the user and leaves the rest of the dictionary.
logout_user_only(ss) == [ss |-> Del(ss, "user"), rerun |-> TRUE]

\* lines 67-69: st.session_state.clear(); st.rerun()
logout(ss) == [ss |-> EmptyDict, rerun |-> TRUE]

\* A login screen that rejects the form only when both fields are empty.
login_screen_both_empty(ss, login_btn, email, password, provider) ==
    IF ~login_btn
    THEN [ss |-> ss, rerun |-> FALSE, msgs |-> {}, signin |-> NoSignIn]
    ELSE IF email = "" /\ password = ""
    THEN [ss |-> ss, rerun |-> FALSE, msgs |-> {FillAllFields}, signin |-> NoSignIn]
    ELSE LET r == supabase_sign_in(ss, email, password, provider)
             signin == [called |-> r.called, ok |-> r.ok, user |-> r.user, text |-> r.text]
         IN  IF r.ok
             THEN [ss |-> r.ss, rerun |-> TRUE, msgs |-> {LoginSuccessful}, signin |-> signin]
             ELSE [ss |-> r.ss, rerun |-> FALSE, msgs |-> {InvalidLogin}, signin |-> signin]

\* lines 74-91
login_screen(ss, login_btn, email, password, provider) ==
    IF ~login_btn
    THEN [ss |-> ss, rerun |-> FALSE, msgs |-> {}, signin |-> NoSignIn]
    ELSE IF email = "" \/ password = ""
    THEN [ss |-> ss, rerun |-> FALSE, msgs |-> {FillAllFields}, signin |-> NoSignIn]
    ELSE LET r == supabase_sign_in(ss, email, password, provider)
             signin == [called |-> r.called, ok |-> r.ok, user |-> r.user, text |-> r.text]
         IN  IF r.ok
             THEN [ss |-> r.ss, rerun |-> TRUE, msgs |-> {LoginSuccessful}, signin |-> signin]
             ELSE [ss |-> r.ss, rerun |-> FALSE, msgs |-> {InvalidLogin}, signin |-> signin]

(***************************************************************************)
(* Data fetching.  entry is the cache's entry for the table name, outcome  *)
(* what the backend does if it is asked.  st.cache_data keeps the returned *)
(* frame together with the st.error the call made and replays both while   *)
(* the entry is younger than the ttl.                                      *)
(***************************************************************************)
NoEntry == [valid |-> FALSE, age |-> 0, df |-> EmptyDF, msgs |-> {}]

Fresh(entry) == entry.valid /\ entry.age < TTL

\* A fetch_table without the try/except: the backend's exception escapes.
fetch_table_uncaught(table_name, entry, outcome) ==
    IF Fresh(entry)
    THEN [df |-> entry.df, msgs |-> entry.msgs, requests |-> 0,
          raised |-> NoException, entry |-> entry]
    ELSE IF outcome.ok
    THEN [df |-> DataFrame(outcome.data), msgs |-> {}, requests |-> 1,
          raised |-> NoException,
          entry |-> [valid |-> TRUE, age |-> 0, df |-> DataFrame(outcome.data), msgs |-> {}]]
    ELSE [df |-> EmptyDF, msgs |-> {}, requests |-> 1, raised |-> "APIError",
          entry |-> entry]

\* lines 96-103
fetch_table(table_name, entry, outcome) ==
    IF Fresh(entry)
    THEN [df |-> entry.df, msgs |-> entry.msgs, requests |-> 0,
          raised |-> NoException, entry |-> entry]
    ELSE LET df == IF outcome.ok THEN DataFrame(outcome.data) ELSE EmptyDF
             msgs == IF outcome.ok THEN {} ELSE {FetchError(table_name)}
         IN  [df |-> df, msgs |-> msgs, requests |-> 1, raised |-> NoException,
              entry |-> [valid |-> TRUE, age |-> 0, df |-> df, msgs |-> msgs]]

(***************************************************************************)
(* What a pass leaves on the screen and what it did.                       *)
(***************************************************************************)
NoRequests == [n \in TableNameSet |-> 0]

NotCalled == [kind |-> "not called", user |-> Null, text |-> ""]

\* The first group is what the pass read (the state it found and its inputs),
\* the second what it drew, the third what its fetch_table calls did.
BlankView ==
    [user_at_entry |-> FALSE, button |-> "none",
     email |-> "", password |-> "", provider |-> NotCalled,
     screen |-> "none", splash |-> FALSE, section |-> Options[DefaultIndex],
     msgs |-> {}, signin |-> NoSignIn, result |-> BlankResult,
     loaded |-> FALSE, requests |-> NoRequests, failed |-> {},
     frames |-> [n \in TableNameSet |-> EmptyDF], escaped |-> NoException]

\* lines 172-352.  button is the sidebar button pressed in this pass, if any.
dashboard(ss, sec, button, cch, outcomes, q, thresh) ==
    LET v0 == [BlankView EXCEPT !.screen = "dashboard", !.button = button, !.section = sec]
        f == [n \in TableNameSet |-> fetch_table(n, cch[n], outcomes[n])]
        escaped == IF \E n \in TableNameSet : f[n].raised # NoException
                   THEN f[CHOOSE n \in TableNameSet : f[n].raised # NoException].raised
                   ELSE NoException
        res == DashboardBody(sec, f["products"].df, f["sales"].df, f["customers"].df,
                             q, thresh)
    IN  IF button = "refresh"
        THEN [ss |-> Put(ss, "refresh", TRUE), rerun |-> TRUE, cache |-> cch, view |-> v0]
        ELSE IF button = "logout"
        THEN [ss |-> logout(ss).ss, rerun |-> logout(ss).rerun, cache |-> cch, view |-> v0]
        ELSE [ss |-> ss, rerun |-> FALSE,
              cache |-> [n \in TableNameSet |-> f[n].entry],
              view |-> [v0 EXCEPT
                          !.loaded = TRUE,
                          !.requests = [n \in TableNameSet |-> f[n].requests],
                          !.failed = {n \in TableNameSet :
                                         f[n].requests > 0 /\ ~outcomes[n].ok},
                          !.frames = [n \in TableNameSet |-> f[n].df],
                          !.msgs = UNION {f[n].msgs : n \in TableNameSet},
                          !.escaped = escaped,
                          !.result = IF escaped # NoException THEN BlankResult ELSE res]]

\* An entry that tests the wrong key of the session state.
AppEntry_wrong_key(ss) == IF ~Has(ss, "show_intro") THEN "login" ELSE "dashboard"

\* lines 357-360: the choice between the two screens
AppEntry(ss) == IF ~Has(ss, "user") THEN "login" ELSE "dashboard"

(***************************************************************************)
(* One render pass: the whole script, lines 16-360.  inp holds the user's  *)
(* inputs to the pass and what the external services do in it.             *)
(***************************************************************************)
Script(ss, sec, cch, inp) ==
    LET top == ScriptTop(ss)
        found(v) == [v EXCEPT !.user_at_entry = Has(top.ss, "user"),
                              !.splash = top.splash]
    IN  IF AppEntry(top.ss) = "login"
        THEN LET l == login_screen(top.ss, inp.login_btn, inp.email, inp.password,
                                   inp.provider)
             IN  [ss |-> l.ss, rerun |-> l.rerun, cache |-> cch,
                  section |-> Options[DefaultIndex],
                  view |-> found([BlankView EXCEPT
                                    !.screen = "login",
                                    !.button = IF inp.login_btn THEN "login" ELSE "none",
                                    !.email = inp.email, !.password = inp.password,
                                    !.provider = IF l.signin.called THEN inp.provider
                                                 ELSE NotCalled,
                                    !.msgs = l.msgs, !.signin = l.signin])]
        ELSE LET d == dashboard(top.ss, sec, inp.button, cch, inp.outcomes,
                                inp.q, inp.thresh)
             IN  [ss |-> d.ss, rerun |-> d.rerun, cache |-> d.cache, section |-> sec,
                  view |-> found(d.view)]

(***************************************************************************)
(* The external services and the user's inputs, drawn from small sets.     *)
(***************************************************************************)
Emails == {"", "ann@x.com"}
Passwords == {"", "pw"}
UserOf(email) == IF email = "ann@x.com" THEN "user-ann" ELSE Null

ProviderReturns(user) == [kind |-> "return", user |-> user, text |-> ""]
ProviderRaises(text) == [kind |-> "raise", user |-> Null, text |-> text]
Providers(email) ==
    {ProviderReturns(UserOf(email)), ProviderReturns(Null),
     ProviderRaises("Invalid login credentials")}

Ok(data) == [ok |-> TRUE, data |-> data]
Fail == [ok |-> FALSE, data |-> <<>>]

\* The tables of the backend in Spec: the tables of the spec's scenarios 1-3.
SampleData(table_name) ==
    CASE table_name = "sales" ->
            << [product |-> "Pen", amount |-> 10, date |-> "2024-01-01"],
               [product |-> "Pen", amount |-> 5, date |-> "2024-01-02"] >>
      [] table_name = "products" ->
            << [name |-> "Widget", price |-> 2, stock |-> 3] >>
      [] OTHER ->
            << [name |-> <<"A", "n", "n">>, email |-> <<"a", "@", "x">>,
                joined_on |-> "2024-02-15"] >>

\* The backend answers every request, rejects one table, or is unreachable.
Outcomes ==
    {o \in [TableNameSet -> {TRUE, FALSE}] :
        Cardinality({n \in TableNameSet : ~o[n]}) \in {0, 1, Cardinality(TableNameSet)}}
OutcomeOf(o) == [n \in TableNameSet |-> IF o[n] THEN Ok(SampleData(n)) ELSE Fail]

Queries == {<<>>, <<"a", "@", "X">>}
Thresholds == {0, DefaultThreshold}

NoInput ==
    [login_btn |-> FALSE, email |-> "", password |-> "", provider |-> ProviderReturns(Null),
     button |-> "none", outcomes |-> OutcomeOf([n \in TableNameSet |-> TRUE]),
     q |-> <<>>, thresh |-> DefaultThreshold]

(***************************************************************************)
(* Spec: the application.                                                  *)
(***************************************************************************)
AggIdle == [section |-> "Status", outcome |-> Fail, q |-> <<>>, thresh |-> DefaultThreshold]
AggNotRun == [done |-> FALSE, res |-> BlankResult]

AppInit ==
    /\ session_state = [s \in Sessions |-> EmptyDict]
    /\ section = [s \in Sessions |-> Options[DefaultIndex]]
    /\ rerun = [s \in Sessions |-> TRUE]        \* the first pass of the session is due
    /\ view = [s \in Sessions |-> BlankView]
    /\ signed_in = [s \in Sessions |-> FALSE]
    /\ cache = [n \in TableNameSet |-> NoEntry]
    /\ fetched_by = [n \in TableNameSet |-> "nobody"]

Init ==
    /\ AppInit
    /\ aggIn = AggIdle
    /\ aggOut = AggNotRun

\* Session s runs the script with the inputs inp and the widget selection sec.
Pass(s, sec, inp) ==
    \E r \in {Script(session_state[s], sec, cache, inp)} :
        /\ session_state' = [session_state EXCEPT ![s] = r.ss]
        /\ section' = [section EXCEPT ![s] = r.section]
        /\ rerun' = [rerun EXCEPT ![s] = r.rerun]
        /\ view' = [view EXCEPT ![s] = r.view]
        /\ cache' = r.cache
        /\ signed_in' = [signed_in EXCEPT ![s] =
                IF r.view.provider.kind = "return" /\ r.view.provider.user # Null
                THEN TRUE
                ELSE IF r.view.button = "logout" THEN FALSE ELSE @]
        /\ fetched_by' = [n \in TableNameSet |->
                IF r.view.requests[n] > 0 THEN s ELSE fetched_by[n]]
        /\ UNCHANGED aggVars

\* What a pass of session s that shows section sec can be given: the backend
\* is asked only for the tables whose entry is not fresh, the search box exists
\* only in the Customers section, the threshold input only in the Products
\* section, and the login screen has none of them.
PassInputs(s, sec) ==
    IF ~Has(session_state[s], "user") THEN {NoInput}
    ELSE {[NoInput EXCEPT !.outcomes = OutcomeOf(o), !.q = q, !.thresh = t] :
             o \in {x \in Outcomes : \A n \in TableNameSet : Fresh(cache[n]) => x[n]},
             q \in IF sec = "Customers" THEN Queries ELSE {<<>>},
             t \in IF sec = "Products" THEN Thresholds ELSE {DefaultThreshold}}

\* The pending pass: the first load, or the pass st.rerun() asked for.
Rerun(s) ==
    /\ rerun[s]
    /\ \E inp \in PassInputs(s, section[s]) : Pass(s, section[s], inp)

\* The user presses Login on the login screen.  The provider acts only when
\* it is called, that is when both fields are filled.
PressLogin(s) ==
    /\ ~rerun[s]
    /\ view[s].screen = "login"
    /\ \E e \in Emails, p \in Passwords :
          \E pr \in IF e = "" \/ p = "" THEN {NoInput.provider} ELSE Providers(e) :
             Pass(s, section[s], [NoInput EXCEPT !.login_btn = TRUE, !.email = e,
                                                 !.password = p, !.provider = pr])

\* The user picks another entry of the sidebar menu.
SelectSection(s) ==
    /\ ~rerun[s]
    /\ view[s].screen = "dashboard"
    /\ \E sec \in Sections \ {section[s]} :
          \E inp \in PassInputs(s, sec) : Pass(s, sec, inp)

\* The user edits the search text or the threshold of the section shown.
EditInput(s) ==
    /\ ~rerun[s]
    /\ view[s].screen = "dashboard"
    /\ section[s] \in {"Customers", "Products"}
    /\ \E inp \in PassInputs(s, section[s]) : Pass(s, section[s], inp)

\* The user presses "Refresh App".
PressRefresh(s) ==
    /\ ~rerun[s]
    /\ view[s].screen = "dashboard"
    /\ Pass(s, section[s], [NoInput EXCEPT !.button = "refresh"])

\* The user presses "Logout".
PressLogout(s) ==
    /\ ~rerun[s]
    /\ view[s].screen = "dashboard"
    /\ Pass(s, section[s], [NoInput EXCEPT !.button = "logout"])

\* Time passes: every cache entry ages (an entry of age TTL is no longer served).
Tick ==
    /\ \E n \in TableNameSet : Fresh(cache[n])
    /\ cache' = [n \in TableNameSet |->
                    IF cache[n].valid
                    THEN [cache[n] EXCEPT !.age = Min(@ + TickStep, TTL)]
                    ELSE cache[n]]
    /\ UNCHANGED <<session_state, section, rerun, view, signed_in, fetched_by, aggVars>>

Next ==
    \/ \E s \in Sessions : Rerun(s)
    \/ \E s \in Sessions : PressLogin(s)
    \/ \E s \in Sessions : SelectSection(s)
    \/ \E s \in Sessions : EditInput(s)
    \/ \E s \in Sessions : PressRefresh(s)
    \/ \E s \in Sessions : PressLogout(s)
    \/ Tick

Spec == Init /\ [][Next]_vars

(***************************************************************************)
(* SpecAgg: the tables are loaded into an empty cache and the body of      *)
(* dashboard() runs on them, for every table of a bounded set.             *)
(***************************************************************************)
BoundedSeq(S, n) == UNION {[1..k -> S] : k \in 0..n}

SaleRows ==
    [product : {"Pen", "Ink", Null}, amount : 0..MaxAmount,
     date : {"2024-01-01", "2024-01-02 09:00", "bad"}]
CustomerRows ==
    [name : {<<"A", "n">>, <<"b", "o">>}, email : {<<"A", "@", "B">>, <<"a", "@", "x">>},
     joined_on : {"2024-02-15", "2024-03-01 18:00", "bad"}]
ProductRows ==
    [name : {"Widget", "Gadget"}, price : 1..(MaxPrice + 1), stock : 0..MaxStock]

TableOf(sec) ==
    CASE sec = "Sales" -> "sales"
      [] sec = "Customers" -> "customers"
      [] sec = "Products" -> "products"
      [] OTHER -> "none"

AggOutcomes(S) == {Fail} \cup {Ok(d) : d \in BoundedSeq(S, MaxRows)}

AggInputs ==
    {[section |-> "Sales", outcome |-> o, q |-> <<>>, thresh |-> DefaultThreshold] :
        o \in AggOutcomes(SaleRows)}
    \cup {[section |-> "Customers", outcome |-> o[1], q |-> o[2], thresh |-> DefaultThreshold] :
        o \in AggOutcomes(CustomerRows) \X Queries}
    \cup {[section |-> "Products", outcome |-> o[1], q |-> <<>>, thresh |-> o[2]] :
        o \in AggOutcomes(ProductRows) \X Thresholds}
    \cup {AggIdle}

\* The frames the three fetch_table calls of lines 197-199 return for the input.
AggTables(inp) ==
    [n \in TableNameSet |->
        fetch_table(n, NoEntry,
                    IF n = TableOf(inp.section) THEN inp.outcome ELSE Ok(SampleData(n))).df]

AggInit ==
    /\ AppInit
    /\ aggIn \in AggInputs
    /\ aggOut = AggNotRun

\* The selected section is rendered on freshly fetched tables.
AggRender ==
    /\ ~aggOut.done
    /\ aggOut' = [done |-> TRUE,
                  res |-> DashboardBody(aggIn.section, AggTables(aggIn)["products"],
                                        AggTables(aggIn)["sales"],
                                        AggTables(aggIn)["customers"],
                                        aggIn.q, aggIn.thresh)]
    /\ UNCHANGED <<aggIn, appVars>>

AggNext == AggRender

SpecAgg == AggInit /\ [][AggNext]_vars

(***************************************************************************)
(* The claims.                                                             *)
(***************************************************************************)
FailedSignIn(v) == v.button = "login" /\ v.signin.called /\ ~v.signin.ok

\* The screen the session's next pass shows if no button is pressed.
NextScreen(s) == Script(session_state[s], section[s], cache, NoInput).view.screen

\* C1: a pass in which sign_in_with_password returned no user or raised leaves
\* every key of the session's state as it was, returns (False, "Login failed.")
\* for no user and (False, the exception's text) for an exception, asks for no
\* rerun, and the session's next pass shows the login screen.
C1_FailedSignInLeavesSession ==
    [][\A s \in Sessions :
          FailedSignIn(view'[s]) =>
             /\ session_state'[s] = session_state[s]
             /\ view'[s].provider.kind \in {"return", "raise"}
             /\ (view'[s].provider.kind = "return" =>
                    /\ view'[s].provider.user = Null
                    /\ view'[s].signin.text = "Login failed.")
             /\ (view'[s].provider.kind = "raise" =>
                    view'[s].signin.text = view'[s].provider.text)
             /\ view'[s].signin.user = Null
             /\ ~rerun'[s]
             /\ NextScreen(s)' = "login"]_vars

\* C1 witness: one session's sign-in raised, another's returned no user.
C1_Witness ==
    \E s, t \in Sessions :
        /\ FailedSignIn(view[s]) /\ view[s].provider.kind = "raise"
        /\ FailedSignIn(view[t]) /\ view[t].provider.kind = "return"

\* C2: after Login was pressed with the email or the password empty, the
\* provider was not called, "Please fill all fields." is shown and the session
\* state has no user key.
C2_EmptyFieldNoProviderCall ==
    \A s \in Sessions :
        (view[s].button = "login" /\ (view[s].email = "" \/ view[s].password = "")) =>
            /\ ~view[s].signin.called
            /\ view[s].provider = NotCalled
            /\ FillAllFields \in view[s].msgs
            /\ ~Has(session_state[s], "user")

\* C2 witness: Login pressed with an email and an empty password, and in the
\* other session with a password and an empty email.
C2_Witness ==
    \E s, t \in Sessions :
        /\ view[s].button = "login" /\ view[s].email # "" /\ view[s].password = ""
        /\ view[t].button = "login" /\ view[t].email = "" /\ view[t].password # ""

\* C3: after the pass in which Logout was pressed, the session state is empty
\* (no user, email, show_intro or refresh key), a rerun is due, and the pass that
\* follows shows the login screen.
C3_LogoutClearsSession ==
    \A s \in Sessions :
        view[s].button = "logout" =>
            /\ session_state[s] = EmptyDict
            /\ rerun[s]
            /\ NextScreen(s) = "login"

\* C3 witness: a logout from a section other than the default one.
C3_Witness ==
    \E s \in Sessions : view[s].button = "logout" /\ view[s].section = "Products"

\* C4 (as claimed): the pass that removes the refresh flag obtains all three
\* tables by a backend request, and keeps user, email and section.
C4_RefreshFetchesAnew ==
    [][\A s \in Sessions :
          (Has(session_state[s], "refresh") /\ ~Has(session_state'[s], "refresh")) =>
             /\ view'[s].loaded
             /\ \A n \in TableNameSet : view'[s].requests[n] = 1
             /\ session_state'[s]["user"] = session_state[s]["user"]
             /\ session_state'[s]["email"] = session_state[s]["email"]
             /\ section'[s] = section[s]]_vars

\* C5: for every table whose backend request failed in a pass, the error is on
\* the display surface, the frame returned is the empty frame, no exception
\* escaped fetch_table, and the request was made once.
C5_FetchFailureGivesEmptyTable ==
    \A s \in Sessions :
        \A n \in view[s].failed :
            /\ FetchError(n) \in view[s].msgs
            /\ view[s].frames[n] = EmptyDF
            /\ view[s].escaped = NoException
            /\ view[s].requests[n] = 1

\* C5 witness: a pass in which the requests for all three tables failed.
C5_Witness ==
    \E s \in Sessions : view[s].failed = TableNameSet

\* C6 (as claimed): a section rendered on an empty table runs to its end and
\* shows the empty results.
C6_EmptyTableRenders ==
    (/\ aggOut.done
     /\ aggIn.section \in {"Sales", "Customers", "Products"}
     /\ IsEmpty(AggTables(aggIn)[TableOf(aggIn.section)])) =>
        /\ aggOut.res.raised = NoException
        /\ aggOut.res.total_revenue = 0
        /\ aggOut.res.total_orders = 0
        /\ aggOut.res.total_customers = 0
        /\ aggOut.res.newest_display = Dash
        /\ aggOut.res.low = <<>>

\* C7 (as claimed): the Sales and the Customers section rendered on a table
\* with rows, some or all of whose dates cannot be parsed, run to their end.
C7_MalformedDateNotFatal ==
    (/\ aggOut.done
     /\ aggIn.section \in {"Sales", "Customers"}
     /\ aggIn.outcome.ok
     /\ \E i \in 1..Len(aggIn.outcome.data) :
           to_datetime(IF aggIn.section = "Sales" THEN aggIn.outcome.data[i].date
                       ELSE aggIn.outcome.data[i].joined_on) = NaT) =>
        aggOut.res.raised = NoException

\* C8 (as claimed): the amounts of revenue_by_product add up to total_revenue,
\* and there is one row per distinct product.
C8_RevenueByProductSumsToTotal ==
    (/\ aggOut.done
     /\ aggIn.section = "Sales"
     /\ aggIn.outcome.ok
     /\ Len(aggIn.outcome.data) > 0) =>
        /\ SumSeq([i \in 1..Len(aggOut.res.rev) |-> aggOut.res.rev[i].amount])
              = aggOut.res.total_revenue
        /\ Len(aggOut.res.rev)
              = Cardinality({aggIn.outcome.data[i].product :
                                i \in 1..Len(aggIn.outcome.data)} \ {Null})

\* C9 (as claimed): a table a pass gets without a backend request comes from
\* an entry that a pass of the same session put into the cache.
C9_SessionOwnsItsCache ==
    [][\A s \in Sessions : \A n \in TableNameSet :
          (view'[s] # view[s] /\ view'[s].loaded /\ view'[s].requests[n] = 0) =>
             fetched_by[n] = s]_vars

\* C10: a pass draws the dashboard, calls fetch_table or asks the backend only
\* if the session state held a user at that pass; the session state holds a user
\* only if a sign-in returned one since the session's start or last logout; a
\* pass without a user draws the login screen only and asks for no table.
C10_DataOnlyWhenLoggedIn ==
    \A s \in Sessions :
        /\ (\/ view[s].screen = "dashboard"
            \/ view[s].loaded
            \/ \E n \in TableNameSet : view[s].requests[n] > 0) => view[s].user_at_entry
        /\ Has(session_state[s], "user") => signed_in[s]
        /\ (view[s].screen # "none" /\ ~view[s].user_at_entry) =>
              /\ view[s].screen = "login"
              /\ ~view[s].loaded
              /\ view[s].requests = NoRequests
              /\ view[s].result = BlankResult

\* C10 witness: one session has loaded its tables from the backend while the
\* other, logged out again, is on the login screen.
C10_Witness ==
    \E s, t \in Sessions :
        /\ view[s].loaded /\ view[s].requests["sales"] = 1
        /\ view[t].screen = "login" /\ fetched_by["sales"] = t

====
